---------------------------- MODULE Spec2Model ----------------------------
(***************************************************************************)
(* Beacon-chain state transition core (atc_chain/state/state_transition.py)*)
(*                                                                         *)
(* The driver compute_state_transition is modelled as a process with a     *)
(* program counter: BeginTransition (fill_recent_block_hashes and          *)
(* process_block), CycleStep (one iteration of the while loop of           *)
(* compute_cycle_transitions) and ReturnTransition (the loop exit and the  *)
(* return).  parent_state is the pair the caller holds; crystallized_state *)
(* and active_state are the locals of the call.                            *)
(*                                                                         *)
(* Python lists are sequences; the element at Python index i is At(s, i).  *)
(* Validator indices, shard ids and committee positions are 0-based as in  *)
(* the source.  Hashes are integers: ZERO_HASH32 is 0, the block appended  *)
(* at position k of the chain has hash k.                                  *)
(***************************************************************************)
EXTENDS Integers, Sequences, FiniteSets, TLC

VARIABLES
    parent_state,        \* the (CrystallizedState, ActiveState) pair held by the caller
    crystallized_state,  \* local of compute_state_transition
    active_state,        \* local of compute_state_transition
    block,               \* the block argument of the call in progress
    parent_block,        \* the parent_block argument of that call
    pc,                  \* "idle" | "cycles"
    outcome,             \* "none" | "running" | "returned" | "ValidationError" | "aborted"
    error,               \* the error raised by the last call and the attestation it was raised for
    cycles_run,          \* initialize_new_cycle calls made by the call in progress
    dynasty_runs,        \* compute_dynasty_transition calls made by that call
    justified_slots,     \* history: the slots that met the test of line 364 when examined
    profile              \* which family of blocks the environment proposes

vars == <<parent_state, crystallized_state, active_state, block, parent_block,
          pc, outcome, error, cycles_run, dynasty_runs, justified_slots, profile>>

---------------------------------------------------------------------------
(* Configuration (DEFAULT_CONFIG keys read by the source) scaled down.     *)

cycle_length == 2
shard_count == 2
min_dynasty_length == 4
base_reward_quotient == 1
sqrt_e_drop_time == 8
slot_duration == 1
deposit_size == 16
WEI_PER_ETH == 1
ZERO_HASH32 == 0

(* Bounds of the exploration.                                              *)
MaxSlot == 8          \* largest block.slot_number proposed
MaxBlocks == 4        \* largest number of blocks in active_state.chain
MaxAttestations == 2  \* largest len(block.attestations)
MaxIdleSlot == 12     \* largest block.slot_number of the chain nobody but the proposer attests

---------------------------------------------------------------------------
(* Generic list helpers.                                                   *)

At(s, i) == s[i + 1]

Max(a, b) == IF a >= b THEN a ELSE b
Min(a, b) == IF a <= b THEN a ELSE b

\* s[k:] of Python for k >= 0
Drop(s, k) == IF k >= Len(s) THEN << >> ELSE SubSeq(s, k + 1, Len(s))

Repeat(x, n) == [i \in 1..n |-> x]

SeqToSet(s) == {s[i] : i \in 1..Len(s)}

RECURSIVE SumSeq(_)
SumSeq(s) == IF s = << >> THEN 0 ELSE Head(s) + SumSeq(Tail(s))

RECURSIVE SumOver(_, _)
\* sum of f[x] over the finite set S
SumOver(S, f) ==
    IF S = {} THEN 0
    ELSE LET x == CHOOSE y \in S : TRUE IN f[x] + SumOver(S \ {x}, f)

RECURSIVE SetToSortedSeq(_)
SetToSortedSeq(S) ==
    IF S = {} THEN << >>
    ELSE LET m == CHOOSE x \in S : \A y \in S : x <= y
         IN <<m>> \o SetToSortedSeq(S \ {m})

---------------------------------------------------------------------------
(* Helpers of atc_chain.utils.bitfield.  A bitfield is a byte string; it   *)
(* is modelled by its length in bytes and the set of its bit positions     *)
(* that are 1 (bit i is bit i mod 8, counted from the most significant     *)
(* bit, of byte i div 8).                                                  *)

get_bitfield_length(n) == (n + 7) \div 8

has_voted(bitfield, index) == index \in bitfield.bits

get_empty_bitfield(n) == [nbytes |-> get_bitfield_length(n), bits |-> {}]

\* elementwise OR of a non-empty list of bitfields of one length
or_bitfields(bitfields) ==
    [nbytes |-> bitfields[1].nbytes,
     bits |-> UNION {bitfields[i].bits : i \in 1..Len(bitfields)}]

---------------------------------------------------------------------------
(* Helpers of atc_chain.state.helpers and the state classes.               *)

RECURSIVE newton(_, _, _)
newton(n, x, y) == IF y < x THEN newton(n, y, (y + n \div y) \div 2) ELSE x

\* integer floor of the square root, by Newton iteration
int_sqrt(n) == newton(n, n, (n + 1) \div 2)

is_active(validator, dynasty) ==
    validator.start_dynasty <= dynasty /\ dynasty < validator.end_dynasty

active_index_set(dynasty, validators) ==
    {i \in 0..(Len(validators) - 1) : is_active(At(validators, i), dynasty)}

get_active_validator_indices(dynasty, validators) ==
    SetToSortedSeq(active_index_set(dynasty, validators))

\* CrystallizedState.total_deposits
total_deposits(cs) ==
    SumSeq([k \in 1..Len(get_active_validator_indices(cs.current_dynasty, cs.validators)) |->
              At(cs.validators,
                 get_active_validator_indices(cs.current_dynasty, cs.validators)[k]).balance])

\* position of a slot in shard_and_committee_for_slots
schedule_index(cs, slot) == slot - (cs.last_state_recalc - cycle_length)

slot_in_schedule(cs, slot) ==
    /\ schedule_index(cs, slot) >= 0
    /\ schedule_index(cs, slot) < Len(cs.shard_and_committee_for_slots)

get_shards_and_committees_for_slot(cs, slot) ==
    At(cs.shard_and_committee_for_slots, schedule_index(cs, slot))

\* the committee for (attestation.slot, attestation.shard_id); no committee
\* (the empty list) when the shard is not scheduled at that slot
get_attestation_indices(cs, attestation) ==
    LET sacs == get_shards_and_committees_for_slot(cs, attestation.slot)
        hits == {k \in 1..Len(sacs) : sacs[k].shard_id = attestation.shard_id}
    IN IF hits = {} THEN << >>
       ELSE sacs[CHOOSE k \in hits : \A j \in hits : k <= j].committee

\* (proposer_index_in_committee, shard_id) of the proposer of parent_block
get_proposer_position(pb, cs) ==
    LET sac == get_shards_and_committees_for_slot(cs, pb.slot_number)[1]
    IN [proposer_index_in_committee |-> pb.slot_number % Len(sac.committee),
        shard_id |-> sac.shard_id]

\* recent_block_hashes of the state filled for block b covers the slots
\* b.slot_number - 2*cycle_length .. b.slot_number - 1
block_hash_in_window(b, slot) ==
    /\ b.slot_number - 2 * cycle_length <= slot
    /\ slot < b.slot_number

get_block_hash(as, b, slot) ==
    At(as.recent_block_hashes, slot - (b.slot_number - 2 * cycle_length))

\* slots of the signed window that are read from recent_block_hashes: the
\* oblique hashes stand for the first len(oblique_parent_hashes) positions
signed_slots(attestation) ==
    [i \in 1..(cycle_length - Len(attestation.oblique_parent_hashes)) |->
        attestation.slot - cycle_length + Len(attestation.oblique_parent_hashes) + i]

signed_parent_hashes_defined(as, b, attestation) ==
    /\ Len(attestation.oblique_parent_hashes) <= cycle_length
    /\ \A i \in 1..Len(signed_slots(attestation)) :
          block_hash_in_window(b, signed_slots(attestation)[i])

get_signed_parent_hashes(as, b, attestation) ==
    attestation.oblique_parent_hashes \o
    [i \in 1..Len(signed_slots(attestation)) |->
        get_block_hash(as, b, signed_slots(attestation)[i])]

get_new_recent_block_hashes(old_block_hashes, parent_slot, current_slot, parent_hash) ==
    LET d == current_slot - parent_slot
    IN Drop(old_block_hashes, d) \o Repeat(parent_hash, Min(d, Len(old_block_hashes)))

\* Chain.get_block_by_hash / get_block_by_slot_number: the block, or None
None == [hash |-> -1, slot_number |-> -1, parent_hash |-> -1]

chain_hits_hash(chain, h) == {k \in 1..Len(chain.blocks) : chain.blocks[k].hash = h}

get_block_by_hash(chain, h) ==
    IF chain_hits_hash(chain, h) = {} THEN None
    ELSE chain.blocks[CHOOSE k \in chain_hits_hash(chain, h) :
                         \A j \in chain_hits_hash(chain, h) : k <= j]

chain_hits_slot(chain, slot) ==
    {k \in 1..Len(chain.blocks) : chain.blocks[k].slot_number = slot}

get_block_by_slot_number(chain, slot) ==
    IF chain_hits_slot(chain, slot) = {} THEN None
    ELSE chain.blocks[CHOOSE k \in chain_hits_slot(chain, slot) :
                         \A j \in chain_hits_slot(chain, slot) : k <= j]

\* the entry of a block in the chain: the fields the transition reads back
chain_entry(b) == [hash |-> b.hash, slot_number |-> b.slot_number, parent_hash |-> b.parent_hash]

\* get_new_shuffling(seed, validators, dynasty, start_shard): cycle_length
\* entries; the validators active in the dynasty, split over two committees
\* on consecutive shards
new_committees(validators, dynasty, start_shard) ==
    LET act == get_active_validator_indices(dynasty, validators)
        half == (Len(act) + 1) \div 2
    IN IF Len(act) <= 1
       THEN << [shard_id |-> start_shard, committee |-> act] >>
       ELSE << [shard_id |-> start_shard, committee |-> SubSeq(act, 1, half)],
               [shard_id |-> (start_shard + 1) % shard_count,
                committee |-> SubSeq(act, half + 1, Len(act))] >>

get_new_shuffling(seed, validators, dynasty, start_shard) ==
    Repeat(new_committees(validators, dynasty, start_shard), cycle_length)

---------------------------------------------------------------------------
(* Attestation validator and block processor.  A check that raises is the  *)
(* name of its error; "ok" when nothing is raised.  Errors that are not    *)
(* ValidationError start with "abort".                                     *)

ValidationErrors ==
    {"EmptyAttestations", "ProposerNotAttester", "AttestationSlotTooHigh",
     "AttestationSlotTooLow", "JustifiedSlotTooNew", "JustifiedBlockMissing",
     "JustifiedBlockSlotMismatch", "BitfieldLengthWrong",
     "BitfieldTrailingBitsNonZero", "AggregateSignatureInvalid"}

\* is_proposer_attestation without the test of the proposer's bit
is_proposer_attestation_unsigned(attestation, position, pb) ==
    /\ attestation.shard_id = position.shard_id
    /\ attestation.slot = pb.slot_number

is_proposer_attestation(attestation, position, pb) ==
    /\ attestation.shard_id = position.shard_id
    /\ attestation.slot = pb.slot_number
    /\ has_voted(attestation.attester_bitfield, position.proposer_index_in_committee)

validate_parent_block_proposer(b, pb, cs) ==
    IF b.slot_number = 0 THEN "ok"
    ELSE IF ~slot_in_schedule(cs, pb.slot_number) THEN "abort:get_proposer_position"
    ELSE IF Len(b.attestations) = 0 THEN "EmptyAttestations"
    ELSE IF ~is_proposer_attestation(b.attestations[1], get_proposer_position(pb, cs), pb)
         THEN "ProposerNotAttester"
    ELSE "ok"

\* the bits at positions last_bit .. last_bit + (8 - last_bit % 8) - 1
trailing_bits_zero(attestation, last_bit) ==
    \/ last_bit % 8 = 0
    \/ \A i \in 0..(8 - (last_bit % 8) - 1) :
          ~has_voted(attestation.attester_bitfield, last_bit + i)

\* bls.verify(message, bls.aggregate_pubs(pub_keys), aggregate_sig): the
\* verdict of the signature oracle travels with the attestation
bls_verify(attestation) == attestation.aggregate_sig = "good"

validate_attestation(cs, as, attestation, b, pb) ==
    IF ~(attestation.slot <= pb.slot_number) THEN "AttestationSlotTooHigh"
    ELSE IF ~(attestation.slot >= Max(pb.slot_number - cycle_length + 1, 0))
         THEN "AttestationSlotTooLow"
    ELSE IF attestation.justified_slot > cs.last_justified_slot THEN "JustifiedSlotTooNew"
    ELSE IF get_block_by_hash(as.chain, attestation.justified_block_hash) = None
         THEN "JustifiedBlockMissing"
    ELSE IF get_block_by_hash(as.chain, attestation.justified_block_hash).slot_number
                # attestation.justified_slot
         THEN "JustifiedBlockSlotMismatch"
    ELSE IF ~signed_parent_hashes_defined(as, b, attestation)
         THEN "abort:get_signed_parent_hashes"
    ELSE IF ~slot_in_schedule(cs, attestation.slot) THEN "abort:get_attestation_indices"
    ELSE IF ~(attestation.attester_bitfield.nbytes
                = get_bitfield_length(Len(get_attestation_indices(cs, attestation))))
         THEN "BitfieldLengthWrong"
    ELSE IF ~trailing_bits_zero(attestation, Len(get_attestation_indices(cs, attestation)))
         THEN "BitfieldTrailingBitsNonZero"
    ELSE IF ~bls_verify(attestation) THEN "AggregateSignatureInvalid"
    ELSE "ok"

empty_vote == [voter_indices |-> {}, total_voter_deposits |-> 0]

cache_with(cache, h, entry) ==
    [x \in (DOMAIN cache) \cup {h} |-> IF x = h THEN entry ELSE cache[x]]

\* add_vote without the test that the validator is not yet a voter
add_vote_again(cs, attestation, cache, parent_hash, committee_index, validator_index) ==
    IF has_voted(attestation.attester_bitfield, committee_index)
    THEN cache_with(cache, parent_hash,
            [voter_indices |-> cache[parent_hash].voter_indices \cup {validator_index},
             total_voter_deposits |-> cache[parent_hash].total_voter_deposits
                                        + At(cs.validators, validator_index).balance])
    ELSE cache

\* lines 247-253: one committee member's vote for parent_hash
add_vote(cs, attestation, cache, parent_hash, committee_index, validator_index) ==
    IF /\ has_voted(attestation.attester_bitfield, committee_index)
       /\ validator_index \notin cache[parent_hash].voter_indices
    THEN cache_with(cache, parent_hash,
            [voter_indices |-> cache[parent_hash].voter_indices \cup {validator_index},
             total_voter_deposits |-> cache[parent_hash].total_voter_deposits
                                        + At(cs.validators, validator_index).balance])
    ELSE cache

RECURSIVE add_votes(_, _, _, _, _, _)
\* the loop of line 247 from committee position k on
add_votes(cs, attestation, cache, parent_hash, attestation_indices, k) ==
    IF k >= Len(attestation_indices) THEN cache
    ELSE add_votes(cs, attestation,
                   add_vote(cs, attestation, cache, parent_hash, k, At(attestation_indices, k)),
                   parent_hash, attestation_indices, k + 1)

\* lines 240-246: the hashes that take no vote, and the new cache entry
skips_parent_hash(attestation, parent_hash) ==
    parent_hash \in SeqToSet(attestation.oblique_parent_hashes)

RECURSIVE vote_for_hashes(_, _, _, _, _)
\* the loop of line 239 over parent_hashes
vote_for_hashes(cs, attestation, cache, parent_hashes, attestation_indices) ==
    IF parent_hashes = << >> THEN cache
    ELSE IF skips_parent_hash(attestation, Head(parent_hashes))
         THEN vote_for_hashes(cs, attestation, cache, Tail(parent_hashes), attestation_indices)
    ELSE vote_for_hashes(
            cs, attestation,
            add_votes(cs, attestation,
                      IF Head(parent_hashes) \in DOMAIN cache THEN cache
                      ELSE cache_with(cache, Head(parent_hashes), empty_vote),
                      Head(parent_hashes), attestation_indices, 0),
            Tail(parent_hashes), attestation_indices)

get_updated_block_vote_cache(cs, as, attestation, b, block_vote_cache) ==
    vote_for_hashes(cs, attestation, block_vote_cache,
                    get_signed_parent_hashes(as, b, attestation),
                    get_attestation_indices(cs, attestation))

RECURSIVE process_attestations_lenient(_, _, _, _, _, _)
\* process_attestations that drops an attestation failing its validation and goes on
process_attestations_lenient(cs, as, b, pb, cache, k) ==
    IF k > Len(b.attestations) THEN [status |-> "ok", at |-> 0, block_vote_cache |-> cache]
    ELSE IF validate_attestation(cs, as, b.attestations[k], b, pb) # "ok"
         THEN process_attestations_lenient(cs, as, b, pb, cache, k + 1)
    ELSE process_attestations_lenient(
            cs, as, b, pb,
            get_updated_block_vote_cache(cs, as, b.attestations[k], b, cache),
            k + 1)

RECURSIVE process_attestations(_, _, _, _, _, _)
\* the loop of lines 267-281 from attestation k (1-based) on, with the
\* cache folded so far
process_attestations(cs, as, b, pb, cache, k) ==
    IF k > Len(b.attestations) THEN [status |-> "ok", at |-> 0, block_vote_cache |-> cache]
    ELSE IF validate_attestation(cs, as, b.attestations[k], b, pb) # "ok"
         THEN [status |-> validate_attestation(cs, as, b.attestations[k], b, pb),
               at |-> k,
               block_vote_cache |-> cache]
    ELSE process_attestations(
            cs, as, b, pb,
            get_updated_block_vote_cache(cs, as, b.attestations[k], b, cache),
            k + 1)

\* processed_active_state that appends the block's hash to recent_block_hashes
processed_active_state_appending(as, b, new_block_vote_cache) ==
    [pending_attestations |-> as.pending_attestations \o b.attestations,
     recent_block_hashes |-> Append(as.recent_block_hashes, b.hash),
     block_vote_cache |-> new_block_vote_cache,
     chain |-> [head |-> chain_entry(b),
                blocks |-> Append(as.chain.blocks, chain_entry(b))]]

\* processed_active_state that puts the block's attestations first
processed_active_state_prepending(as, b, new_block_vote_cache) ==
    [pending_attestations |-> b.attestations \o as.pending_attestations,
     recent_block_hashes |-> as.recent_block_hashes,
     block_vote_cache |-> new_block_vote_cache,
     chain |-> [head |-> chain_entry(b),
                blocks |-> Append(as.chain.blocks, chain_entry(b))]]

\* what process_block returns when nothing is raised
processed_active_state(as, b, new_block_vote_cache) ==
    [pending_attestations |-> as.pending_attestations \o b.attestations,
     recent_block_hashes |-> as.recent_block_hashes,
     block_vote_cache |-> new_block_vote_cache,
     chain |-> [head |-> chain_entry(b),
                blocks |-> Append(as.chain.blocks, chain_entry(b))]]

\* status is "ok" and active_state the new ActiveState, or status is the
\* error raised (at the attestation numbered at, 0 for the block's own
\* check) and nothing is returned
process_block(cs, as, b, pb) ==
    IF validate_parent_block_proposer(b, pb, cs) # "ok"
    THEN [status |-> validate_parent_block_proposer(b, pb, cs), at |-> 0]
    ELSE LET folded == process_attestations(cs, as, b, pb, as.block_vote_cache, 1)
         IN IF folded.status # "ok"
            THEN [status |-> folded.status, at |-> folded.at]
            ELSE [status |-> "ok", at |-> 0,
                  active_state |-> processed_active_state(as, b, folded.block_vote_cache)]

fill_recent_block_hashes(as, pb, b) ==
    [pending_attestations |-> as.pending_attestations,
     recent_block_hashes |->
        get_new_recent_block_hashes(as.recent_block_hashes, pb.slot_number,
                                    b.slot_number, b.parent_hash),
     block_vote_cache |-> as.block_vote_cache,
     chain |-> as.chain]

---------------------------------------------------------------------------
(* Cycle engine: crosslinks.                                               *)

shard_tuple(attestation) == <<attestation.shard_id, attestation.shard_block_hash>>

\* votes cast in the attestation, by balance (lines 322-326)
attestation_balance(cs, attestation) ==
    LET attestation_indices == get_attestation_indices(cs, attestation)
    IN SumSeq([k \in 1..Len(attestation_indices) |->
                 IF has_voted(attestation.attester_bitfield, k - 1)
                 THEN At(cs.validators, attestation_indices[k]).balance
                 ELSE 0])

\* total committee size by balance (lines 317-320)
committee_balance(cs, attestation) ==
    LET attestation_indices == get_attestation_indices(cs, attestation)
    IN SumSeq([k \in 1..Len(attestation_indices) |->
                 At(cs.validators, attestation_indices[k]).balance])

\* crosslink_condition without the test of the record's dynasty
crosslink_condition_any_dynasty(cs, crosslinks, attestation, group_balance) ==
    3 * group_balance >= 2 * committee_balance(cs, attestation)

\* the condition of lines 330-331, with the balance accumulated for the group
crosslink_condition(cs, crosslinks, attestation, group_balance) ==
    /\ 3 * group_balance >= 2 * committee_balance(cs, attestation)
    /\ cs.current_dynasty > At(crosslinks, attestation.shard_id).dynasty

\* new_crosslink_record stamped with the next dynasty
new_crosslink_record_next(cs, attestation) ==
    [dynasty |-> cs.current_dynasty + 1,
     slot |-> cs.last_state_recalc + cycle_length,
     hash |-> attestation.shard_block_hash]

\* lines 332-336
new_crosslink_record(cs, attestation) ==
    [dynasty |-> cs.current_dynasty,
     slot |-> cs.last_state_recalc + cycle_length,
     hash |-> attestation.shard_block_hash]

RECURSIVE crosslinks_loop(_, _, _, _, _)
\* the loop of line 306 from pending attestation k (1-based) on
crosslinks_loop(cs, pending, total_attestation_balance, crosslinks, k) ==
    IF k > Len(pending) THEN crosslinks
    ELSE LET attestation == pending[k]
             before == IF shard_tuple(attestation) \in DOMAIN total_attestation_balance
                       THEN total_attestation_balance[shard_tuple(attestation)]
                       ELSE 0
             after == before + attestation_balance(cs, attestation)
             tab == [t \in (DOMAIN total_attestation_balance) \cup {shard_tuple(attestation)} |->
                        IF t = shard_tuple(attestation) THEN after
                        ELSE total_attestation_balance[t]]
         IN crosslinks_loop(
               cs, pending, tab,
               IF crosslink_condition(cs, crosslinks, attestation, after)
               THEN [crosslinks EXCEPT ![attestation.shard_id + 1] =
                        new_crosslink_record(cs, attestation)]
               ELSE crosslinks,
               k + 1)

\* the committee lookups of the loop stay inside the schedule
crosslinks_defined(cs, as) ==
    \A k \in 1..Len(as.pending_attestations) :
        slot_in_schedule(cs, as.pending_attestations[k].slot)

process_updated_crosslinks(cs, as, b) ==
    crosslinks_loop(cs, as.pending_attestations, << >>, cs.crosslink_records, 1)

---------------------------------------------------------------------------
(* Reward engine.                                                          *)

reward_quotient(cs) == base_reward_quotient * int_sqrt(total_deposits(cs) \div WEI_PER_ETH)

quadratic_penalty_quotient == (sqrt_e_drop_time \div slot_duration) * (sqrt_e_drop_time \div slot_duration)

\* the slots walked by both reward computations (lines 475 and 532)
reward_window(cs) ==
    {slot \in (cs.last_state_recalc - cycle_length)..(cs.last_state_recalc - 1) : slot >= 0}

\* (voter_indices, total_participated_deposits) of a slot, lines 476-483;
\* read only when the lookup of ffg_cache_defined succeeds
ffg_votes(as, slot) ==
    IF get_block_by_slot_number(as.chain, slot) # None
    THEN as.block_vote_cache[get_block_by_slot_number(as.chain, slot).hash]
    ELSE empty_vote

ffg_cache_defined(cs, as) ==
    \A slot \in reward_window(cs) :
        \/ get_block_by_slot_number(as.chain, slot) = None
        \/ get_block_by_slot_number(as.chain, slot).hash \in DOMAIN as.block_vote_cache

\* ffg_slot_reward whose leak has no quadratic term
ffg_slot_reward_linear(cs, as, b, slot, index) ==
    LET balance == At(cs.validators, index).balance
        votes == ffg_votes(as, slot)
    IN IF index \in votes.voter_indices
       THEN IF b.slot_number - cs.last_finalized_slot <= 3 * cycle_length
            THEN ((balance \div reward_quotient(cs))
                    * (2 * votes.total_voter_deposits - total_deposits(cs)))
                 \div total_deposits(cs)
            ELSE 0
       ELSE 0 - (balance \div reward_quotient(cs))

\* the change of one active validator's reward for one slot, lines 494-512
ffg_slot_reward(cs, as, b, slot, index) ==
    LET balance == At(cs.validators, index).balance
        votes == ffg_votes(as, slot)
        time_since_finality == b.slot_number - cs.last_finalized_slot
    IN IF time_since_finality <= 3 * cycle_length
       THEN IF index \in votes.voter_indices
            THEN ((balance \div reward_quotient(cs))
                    * (2 * votes.total_voter_deposits - total_deposits(cs)))
                 \div total_deposits(cs)
            ELSE 0 - (balance \div reward_quotient(cs))
       ELSE IF index \in votes.voter_indices
            THEN 0
            ELSE 0 - ((balance \div reward_quotient(cs))
                      + ((balance * time_since_finality) \div quadratic_penalty_quotient))

\* a division by reward_quotient is executed by calculate_ffg_rewards
ffg_divides(cs, as, b) ==
    \E slot \in reward_window(cs) :
        \E index \in active_index_set(cs.current_dynasty, cs.validators) :
            \/ b.slot_number - cs.last_finalized_slot <= 3 * cycle_length
            \/ index \notin ffg_votes(as, slot).voter_indices

calculate_ffg_rewards(cs, as, b) ==
    [k \in 1..Len(cs.validators) |->
        IF (k - 1) \in active_index_set(cs.current_dynasty, cs.validators)
        THEN SumOver(reward_window(cs),
                     [slot \in reward_window(cs) |-> ffg_slot_reward(cs, as, b, slot, k - 1)])
        ELSE 0]

\* the OR of the bitfields of the pending attestations for (slot, shard_id),
\* lines 547-557
crosslink_bitfield(as, slot, shard_and_committee) ==
    LET attestations == SelectSeq(as.pending_attestations,
                            LAMBDA a : a.slot = slot /\ a.shard_id = shard_and_committee.shard_id)
    IN IF attestations # << >>
       THEN or_bitfields([k \in 1..Len(attestations) |-> attestations[k].attester_bitfield])
       ELSE get_empty_bitfield(Len(shard_and_committee.committee))

\* every (slot, entry of the slot, committee position) the loop of lines
\* 532-570 visits
committee_seats(cs) ==
    {seat \in reward_window(cs) \X (1..shard_count) \X (0..(Len(cs.validators) - 1)) :
        /\ seat[2] <= Len(get_shards_and_committees_for_slot(cs, seat[1]))
        /\ seat[3] < Len(get_shards_and_committees_for_slot(cs, seat[1])[seat[2]].committee)}

seat_entry(cs, seat) == get_shards_and_committees_for_slot(cs, seat[1])[seat[2]]

seat_shard(cs, seat) == seat_entry(cs, seat).shard_id

seat_validator(cs, seat) == At(seat_entry(cs, seat).committee, seat[3])

seat_participated(cs, as, seat) ==
    has_voted(crosslink_bitfield(as, seat[1], seat_entry(cs, seat)), seat[3])

\* committee_crosslinks[shard_id] of lines 531-570
committee_crosslink(cs, as, shard_id) ==
    LET seats == {seat \in committee_seats(cs) : seat_shard(cs, seat) = shard_id}
        voted == {seat \in seats : seat_participated(cs, as, seat)}
        balance_of == [seat \in seats |-> At(cs.validators, seat_validator(cs, seat)).balance]
    IN [participating_seats |-> voted,
        non_participating_seats |-> seats \ voted,
        total_participated_v_deposits |-> SumOver(voted, balance_of),
        total_v_deposits |-> SumOver(seats, balance_of)]

\* the shards of committee_crosslinks that lines 573-576 do not skip
rewarded_shards(cs) ==
    {shard_id \in {seat_shard(cs, seat) : seat \in committee_seats(cs)} :
        At(cs.crosslink_records, shard_id).dynasty # cs.current_dynasty}

\* the change of one validator's reward for one seat of a rewarded shard,
\* lines 581-593
crosslink_seat_reward(cs, as, b, seat) ==
    LET cc == committee_crosslink(cs, as, seat_shard(cs, seat))
        balance == At(cs.validators, seat_validator(cs, seat)).balance
        time_since_last_confirmation ==
            b.slot_number - At(cs.crosslink_records, seat_shard(cs, seat)).slot
    IN IF seat \in cc.participating_seats
       THEN ((balance \div reward_quotient(cs))
               * (2 * cc.total_participated_v_deposits - cc.total_v_deposits))
            \div cc.total_v_deposits
       ELSE 0 - ((balance \div reward_quotient(cs))
                 + ((balance * time_since_last_confirmation) \div quadratic_penalty_quotient))

rewarded_seats(cs) == {seat \in committee_seats(cs) : seat_shard(cs, seat) \in rewarded_shards(cs)}

\* a division by zero is executed by calculate_crosslink_rewards
crosslink_divides_by_zero(cs, as) ==
    \E seat \in rewarded_seats(cs) :
        \/ reward_quotient(cs) = 0
        \/ /\ seat_participated(cs, as, seat)
           /\ committee_crosslink(cs, as, seat_shard(cs, seat)).total_v_deposits = 0

calculate_crosslink_rewards(cs, as, b) ==
    [k \in 1..Len(cs.validators) |->
        LET mine == {seat \in rewarded_seats(cs) : seat_validator(cs, seat) = k - 1}
        IN SumOver(mine, [seat \in mine |-> crosslink_seat_reward(cs, as, b, seat)])]

\* the error raised by the reward computations, "ok" when none
rewards_status(cs, as, b) ==
    IF ~(total_deposits(cs) > 0) THEN "abort:total_deposits"
    ELSE IF ~ffg_cache_defined(cs, as) THEN "abort:block_vote_cache"
    ELSE IF reward_quotient(cs) = 0 /\ ffg_divides(cs, as, b) THEN "abort:ZeroDivisionError"
    ELSE IF crosslink_divides_by_zero(cs, as) THEN "abort:ZeroDivisionError"
    ELSE "ok"

\* updated_balance without the floor at zero
updated_balance_unfloored(balance, ffg_reward, crosslink_reward) ==
    balance + (ffg_reward + crosslink_reward)

\* lines 626-632
updated_balance(balance, ffg_reward, crosslink_reward) ==
    IF balance + (ffg_reward + crosslink_reward) < 0 THEN 0
    ELSE balance + (ffg_reward + crosslink_reward)

\* lines 625: the validators whose balance is rewritten
is_rewarded(cs, index) == index \in active_index_set(cs.current_dynasty, cs.validators)

apply_rewards_and_penalties(cs, as, b) ==
    LET ffg_rewards == calculate_ffg_rewards(cs, as, b)
        crosslink_rewards == calculate_crosslink_rewards(cs, as, b)
    IN [k \in 1..Len(cs.validators) |->
          IF is_rewarded(cs, k - 1)
          THEN [cs.validators[k] EXCEPT
                  !.balance = updated_balance(cs.validators[k].balance,
                                              ffg_rewards[k], crosslink_rewards[k])]
          ELSE cs.validators[k]]

---------------------------------------------------------------------------
(* Cycle engine: justification, finality and the new cycle.                *)

vote_balance(as, block_hash) ==
    IF block_hash \in DOMAIN as.block_vote_cache
    THEN as.block_vote_cache[block_hash].total_voter_deposits
    ELSE 0

\* the test of line 364
is_justified(balance, deposits) == 3 * balance >= 2 * deposits

\* finalized_after with the distance added instead of subtracted
finalized_after_ahead(ffg, slot) ==
    IF ffg.justified_streak >= cycle_length + 1
    THEN Max(ffg.last_finalized_slot, slot + cycle_length + 1)
    ELSE ffg.last_finalized_slot

\* finalized_after that finalizes up to cycle_length slots back only
finalized_after_near(ffg, slot) ==
    IF ffg.justified_streak >= cycle_length + 1
    THEN Max(ffg.last_finalized_slot, slot - cycle_length)
    ELSE ffg.last_finalized_slot

\* lines 370-371
finalized_after(ffg, slot) ==
    IF ffg.justified_streak >= cycle_length + 1
    THEN Max(ffg.last_finalized_slot, slot - cycle_length - 1)
    ELSE ffg.last_finalized_slot

\* ffg_step that assigns the slot without taking the maximum
ffg_step_assign(cs, as, ffg, i) ==
    LET slot == i + (cs.last_state_recalc - cycle_length)
        block_hash == At(as.recent_block_hashes, i)
        voted == IF is_justified(vote_balance(as, block_hash), total_deposits(cs))
                 THEN [ffg EXCEPT !.last_justified_slot = slot,
                                  !.justified_streak = ffg.justified_streak + 1]
                 ELSE [ffg EXCEPT !.justified_streak = 0]
    IN [voted EXCEPT !.last_finalized_slot = finalized_after(voted, slot)]

\* ffg_step that leaves the streak alone below the threshold
ffg_step_keeps_streak(cs, as, ffg, i) ==
    LET slot == i + (cs.last_state_recalc - cycle_length)
        block_hash == At(as.recent_block_hashes, i)
        voted == IF is_justified(vote_balance(as, block_hash), total_deposits(cs))
                 THEN [ffg EXCEPT !.last_justified_slot = Max(ffg.last_justified_slot, slot),
                                  !.justified_streak = ffg.justified_streak + 1]
                 ELSE ffg
    IN [voted EXCEPT !.last_finalized_slot = finalized_after(voted, slot)]

\* one pass of the loop body of lines 356-371 for position i
ffg_step(cs, as, ffg, i) ==
    LET slot == i + (cs.last_state_recalc - cycle_length)
        block_hash == At(as.recent_block_hashes, i)
        voted == IF is_justified(vote_balance(as, block_hash), total_deposits(cs))
                 THEN [ffg EXCEPT !.last_justified_slot = Max(ffg.last_justified_slot, slot),
                                  !.justified_streak = ffg.justified_streak + 1]
                 ELSE [ffg EXCEPT !.justified_streak = 0]
    IN [voted EXCEPT !.last_finalized_slot = finalized_after(voted, slot)]

RECURSIVE ffg_loop(_, _, _, _)
ffg_loop(cs, as, ffg, i) ==
    IF i >= cycle_length THEN ffg
    ELSE ffg_loop(cs, as, ffg_step(cs, as, ffg, i), i + 1)

\* the slots of the loop of lines 355-371 that pass the test of line 364
justified_in_cycle(cs, as) ==
    {i + (cs.last_state_recalc - cycle_length) : i \in
        {j \in 0..(cycle_length - 1) :
            is_justified(vote_balance(as, At(as.recent_block_hashes, j)),
                         total_deposits(cs))}}

\* keeps_attestation that removes nothing
keeps_attestation_always(attestation, last_state_recalc) == attestation.slot >= 0

\* keeps_attestation measured against the advanced last_state_recalc
keeps_attestation_advanced(attestation, last_state_recalc) ==
    attestation.slot >= last_state_recalc + cycle_length

\* lines 381-384
keeps_attestation(attestation, last_state_recalc) == attestation.slot >= last_state_recalc

\* the schedule without the appended second half
next_schedule_short(cs) == Drop(cs.shard_and_committee_for_slots, cycle_length)

\* lines 393-397
next_shard_and_committee_for_slots(cs) ==
    Drop(cs.shard_and_committee_for_slots, cycle_length) \o
    Drop(cs.shard_and_committee_for_slots, cycle_length)

\* the error raised inside initialize_new_cycle, "ok" when none
cycle_status(cs, as, b) ==
    IF ~crosslinks_defined(cs, as) THEN "abort:get_attestation_indices"
    ELSE rewards_status(cs, as, b)

\* the pair returned by initialize_new_cycle when nothing is raised
initialize_new_cycle(cs, as, b) ==
    LET ffg == ffg_loop(cs, as,
                        [last_justified_slot |-> cs.last_justified_slot,
                         justified_streak |-> cs.justified_streak,
                         last_finalized_slot |-> cs.last_finalized_slot], 0)
    IN [crystallized_state |->
          [validators |-> apply_rewards_and_penalties(cs, as, b),
           last_state_recalc |-> cs.last_state_recalc + cycle_length,
           shard_and_committee_for_slots |-> next_shard_and_committee_for_slots(cs),
           last_justified_slot |-> ffg.last_justified_slot,
           justified_streak |-> ffg.justified_streak,
           last_finalized_slot |-> ffg.last_finalized_slot,
           current_dynasty |-> cs.current_dynasty,
           crosslink_records |-> process_updated_crosslinks(cs, as, b),
           dynasty_seed |-> cs.dynasty_seed,
           dynasty_start |-> cs.dynasty_start],
        active_state |->
          [pending_attestations |->
              SelectSeq(as.pending_attestations,
                        LAMBDA a : keeps_attestation(a, cs.last_state_recalc)),
           recent_block_hashes |-> as.recent_block_hashes,
           block_vote_cache |-> as.block_vote_cache,
           chain |-> as.chain]]

---------------------------------------------------------------------------
(* Dynasty engine.                                                         *)

required_shards(cs) ==
    {cs.shard_and_committee_for_slots[i][k].shard_id :
        <<i, k>> \in {p \in (1..Len(cs.shard_and_committee_for_slots)) \X (1..shard_count) :
                        p[2] <= Len(cs.shard_and_committee_for_slots[p[1]])}}

\* ready_for_dynasty_transition without the test of finality
ready_without_finality(cs, b) ==
    /\ ~(b.slot_number - cs.dynasty_start < min_dynasty_length)
    /\ \A shard_id \in 0..(Len(cs.crosslink_records) - 1) :
          shard_id \in required_shards(cs)
            => ~(At(cs.crosslink_records, shard_id).slot <= cs.dynasty_start)

ready_for_dynasty_transition(cs, b) ==
    /\ ~(b.slot_number - cs.dynasty_start < min_dynasty_length)
    /\ ~(cs.last_finalized_slot <= cs.dynasty_start)
    /\ \A shard_id \in 0..(Len(cs.crosslink_records) - 1) :
          shard_id \in required_shards(cs)
            => ~(At(cs.crosslink_records, shard_id).slot <= cs.dynasty_start)

next_start_shard(cs) ==
    LET last_slot == cs.shard_and_committee_for_slots[Len(cs.shard_and_committee_for_slots)]
    IN (last_slot[Len(last_slot)].shard_id + 1) % shard_count

\* compute_dynasty_transition that reshuffles the whole schedule
compute_dynasty_transition_whole(cs, b) ==
    [cs EXCEPT
        !.current_dynasty = cs.current_dynasty + 1,
        !.dynasty_start = cs.last_state_recalc,
        !.shard_and_committee_for_slots =
            get_new_shuffling(b.parent_hash, cs.validators, cs.current_dynasty + 1,
                              next_start_shard(cs)) \o
            get_new_shuffling(b.parent_hash, cs.validators, cs.current_dynasty + 1,
                              next_start_shard(cs))]

compute_dynasty_transition(cs, b) ==
    [cs EXCEPT
        !.current_dynasty = cs.current_dynasty + 1,
        !.dynasty_start = cs.last_state_recalc,
        !.shard_and_committee_for_slots =
            SubSeq(cs.shard_and_committee_for_slots, 1, cycle_length) \o
            get_new_shuffling(b.parent_hash, cs.validators, cs.current_dynasty + 1,
                              next_start_shard(cs))]

---------------------------------------------------------------------------
(* State transition driver.                                                *)

\* cycle_due that fires one slot before the boundary
cycle_due_early(cs, b) == b.slot_number + 1 >= cs.last_state_recalc + cycle_length

\* cycle_due with > for >=
cycle_due_strict(cs, b) == b.slot_number > cs.last_state_recalc + cycle_length

\* the test of the while loop, line 691
cycle_due(cs, b) == b.slot_number >= cs.last_state_recalc + cycle_length

\* the body of the while loop, lines 692-704, when nothing is raised
cycle_transition(cs, as, b) ==
    LET cycled == initialize_new_cycle(cs, as, b)
    IN IF ready_for_dynasty_transition(cycled.crystallized_state, b)
       THEN [crystallized_state |-> compute_dynasty_transition(cycled.crystallized_state, b),
             active_state |-> cycled.active_state,
             dynasty |-> 1]
       ELSE [crystallized_state |-> cycled.crystallized_state,
             active_state |-> cycled.active_state,
             dynasty |-> 0]

---------------------------------------------------------------------------
(* Genesis.                                                                *)

\* three validators active from dynasty 0 on and one that waits for dynasty 2
genesis_validators ==
    << [balance |-> deposit_size, start_dynasty |-> 0, end_dynasty |-> 100],
       [balance |-> deposit_size, start_dynasty |-> 0, end_dynasty |-> 100],
       [balance |-> deposit_size, start_dynasty |-> 0, end_dynasty |-> 100],
       [balance |-> deposit_size, start_dynasty |-> 2, end_dynasty |-> 100] >>

genesis_block == [hash |-> 1, slot_number |-> 0, parent_hash |-> ZERO_HASH32]

genesis_crystallized_state ==
    [validators |-> genesis_validators,
     last_state_recalc |-> 0,
     shard_and_committee_for_slots |->
        get_new_shuffling(ZERO_HASH32, genesis_validators, 1, 0) \o
        get_new_shuffling(ZERO_HASH32, genesis_validators, 1, 0),
     last_justified_slot |-> 0,
     justified_streak |-> 0,
     last_finalized_slot |-> 0,
     current_dynasty |-> 1,
     crosslink_records |-> Repeat([dynasty |-> 0, slot |-> 0, hash |-> ZERO_HASH32], shard_count),
     dynasty_seed |-> ZERO_HASH32,
     dynasty_start |-> 0]

\* the genesis active state with the genesis block as the head of its chain
genesis_active_state ==
    [pending_attestations |-> << >>,
     recent_block_hashes |-> Repeat(ZERO_HASH32, 2 * cycle_length),
     block_vote_cache |-> << >>,
     chain |-> [head |-> genesis_block, blocks |-> <<genesis_block>>]]

---------------------------------------------------------------------------
(* The blocks the environment proposes on top of the head of the chain.    *)

Profiles == {"honest", "minority", "faulty", "variety", "idle"}

\* how many leading positions of the signed window lie outside the hashes
\* kept for a block at slot n
missing_positions(attestation_slot, n) ==
    IF attestation_slot >= n THEN cycle_length
    ELSE Max(0, Min(cycle_length, (n - 2 * cycle_length) - (attestation_slot - cycle_length + 1)))

\* the latest block of the chain at or before last_justified_slot
justified_head(cs, as) ==
    LET ok == {k \in 1..Len(as.chain.blocks) :
                  as.chain.blocks[k].slot_number <= cs.last_justified_slot}
    IN as.chain.blocks[CHOOSE k \in ok : \A j \in ok :
                          \/ as.chain.blocks[j].slot_number < as.chain.blocks[k].slot_number
                          \/ (as.chain.blocks[j].slot_number = as.chain.blocks[k].slot_number
                              /\ k <= j)]

full_bitfield(committee) ==
    [nbytes |-> get_bitfield_length(Len(committee)), bits |-> 0..(Len(committee) - 1)]

\* a well-formed attestation of the whole committee of (slot, shard_id)
honest_attestation(cs, as, n, slot, shard_id, shard_block_hash) ==
    LET committee == get_attestation_indices(cs, [slot |-> slot, shard_id |-> shard_id])
        justified == justified_head(cs, as)
    IN [slot |-> slot,
        shard_id |-> shard_id,
        oblique_parent_hashes |-> Repeat(ZERO_HASH32, missing_positions(slot, n)),
        shard_block_hash |-> shard_block_hash,
        attester_bitfield |-> full_bitfield(committee),
        justified_slot |-> justified.slot_number,
        justified_block_hash |-> justified.hash,
        aggregate_sig |-> "good"]

\* the proposer's attestation signed by its whole committee
proposer_attestation(cs, as, pb, n) ==
    honest_attestation(cs, as, n, pb.slot_number, get_proposer_position(pb, cs).shard_id, 101)

\* the proposer's attestation signed by the proposer alone
lone_attestation(cs, as, pb, n) ==
    [proposer_attestation(cs, as, pb, n) EXCEPT
        !.attester_bitfield.bits = {get_proposer_position(pb, cs).proposer_index_in_committee}]

\* attestations of the committees of the other shards at the parent's slot
other_attestations(cs, as, pb, n) ==
    {honest_attestation(cs, as, n, pb.slot_number, shard_id, 101) :
        shard_id \in (0..(shard_count - 1)) \ {get_proposer_position(pb, cs).shard_id}}

\* the proposer's attestation with one thing wrong
faulty_attestations(cs, as, pb, n) ==
    LET good == proposer_attestation(cs, as, pb, n)
        position == get_proposer_position(pb, cs)
        committee == get_attestation_indices(cs, good)
    IN {[good EXCEPT !.slot = pb.slot_number + 1],
        [good EXCEPT !.slot = pb.slot_number - cycle_length],
        [good EXCEPT !.justified_slot = cs.last_justified_slot + 1],
        [good EXCEPT !.justified_block_hash = Len(as.chain.blocks) + 1],
        [good EXCEPT !.justified_block_hash = pb.hash],
        [good EXCEPT !.attester_bitfield.nbytes = good.attester_bitfield.nbytes + 1],
        [good EXCEPT !.attester_bitfield.bits = good.attester_bitfield.bits \cup {Len(committee)}],
        [good EXCEPT !.aggregate_sig = "bad"],
        [good EXCEPT !.oblique_parent_hashes = Repeat(ZERO_HASH32, cycle_length + 1)],
        [good EXCEPT !.oblique_parent_hashes = << >>],
        [good EXCEPT !.attester_bitfield.bits =
            good.attester_bitfield.bits \ {position.proposer_index_in_committee}]}
       \cup other_attestations(cs, as, pb, n)

\* attestations that are valid again: the same one once more, another shard
\* block, the slot before the parent's, the parent's hash as oblique hash
varied_attestations(cs, as, pb, n) ==
    LET good == proposer_attestation(cs, as, pb, n)
    IN {good, [good EXCEPT !.shard_block_hash = 102]}
       \cup {honest_attestation(cs, as, n, slot, good.shard_id, 101) :
                slot \in {pb.slot_number - 1} \cap (Max(pb.slot_number - cycle_length + 1, 0)..pb.slot_number)}

oblique_variants(cs, as, pb, n) ==
    LET good == proposer_attestation(cs, as, pb, n)
    IN {[good EXCEPT !.oblique_parent_hashes = Repeat(pb.hash, k)] :
           k \in (missing_positions(pb.slot_number, n)..cycle_length) \ {0}}

AttestationLists(prof, cs, as, pb, n) ==
    LET good == proposer_attestation(cs, as, pb, n)
    IN IF prof = "honest"
       THEN {<<good>>}
            \cup {<<good, a>> : a \in other_attestations(cs, as, pb, n)}
       ELSE IF prof = "minority"
       THEN {<< >>, <<lone_attestation(cs, as, pb, n)>>, <<good>>}
       ELSE IF prof = "idle"
       THEN {<<lone_attestation(cs, as, pb, n)>>}
       ELSE IF prof = "faulty"
       THEN {<<good>>}
            \cup {Repeat(good, j) \o <<a>> :
                    <<j, a>> \in (0..(MaxAttestations - 1)) \X faulty_attestations(cs, as, pb, n)}
       ELSE {<<good>>}
            \cup {<<good>> \o Repeat(a, j) :
                    <<j, a>> \in (1..(MaxAttestations - 1)) \X varied_attestations(cs, as, pb, n)}
            \cup {<<a>> : a \in oblique_variants(cs, as, pb, n)}

\* every gap up to MaxSlot for the well-formed blocks; the blocks with
\* faults or repeated attestations follow their parent within a cycle or two;
\* the blocks attested by their proposer alone come every two cycles, up to
\* MaxIdleSlot
ProposedSlots(prof, pb) ==
    IF prof \in {"honest", "minority"} THEN pb.slot_number..MaxSlot
    ELSE IF prof = "idle"
    THEN {pb.slot_number + 2 * cycle_length} \cap (0..MaxIdleSlot)
    ELSE IF prof = "faulty" THEN pb.slot_number..Min(MaxSlot, pb.slot_number + cycle_length)
    ELSE pb.slot_number..Min(MaxSlot, pb.slot_number + 2 * cycle_length)

\* how long the chain grows: the blocks with faults or repeated attestations
\* are proposed on the first cycle_length blocks
ChainLimit(prof) ==
    IF prof \in {"honest", "minority"} THEN MaxBlocks
    ELSE IF prof = "idle" THEN MaxIdleSlot
    ELSE Min(MaxBlocks, cycle_length + 1)

---------------------------------------------------------------------------
(* The specification.                                                      *)

\* no call in progress
no_block == [hash |-> 0, slot_number |-> 0, parent_hash |-> 0, attestations |-> << >>]
no_error == [kind |-> "", at |-> 0]

Init ==
    /\ parent_state = [crystallized_state |-> genesis_crystallized_state,
                       active_state |-> genesis_active_state]
    /\ crystallized_state = genesis_crystallized_state
    /\ active_state = genesis_active_state
    /\ block = no_block
    /\ parent_block = None
    /\ pc = "idle"
    /\ outcome = "none"
    /\ error = no_error
    /\ cycles_run = 0
    /\ dynasty_runs = 0
    /\ justified_slots = [held |-> {}, working |-> {}]
    /\ profile \in Profiles

\* the call fails: nothing is returned, the locals of the call are gone and
\* the caller keeps its pair
\* fill_recent_block_hashes with the shifted list stored in the ActiveState it
\* was given
filled_in_place(as, pb, b) == fill_recent_block_hashes(as, pb, b)

\* lines 427-436: what the ActiveState passed to fill_recent_block_hashes
\* holds after the call; every field of the result is a copy or a new list
fill_argument_after(as, pb, b) == as

\* the balances written to the validators list of the CrystallizedState
\* passed in
rewarded_in_place(cs, as, b) ==
    [cs EXCEPT !.validators = apply_rewards_and_penalties(cs, as, b)]

\* lines 304, 393-410 and 620: what the CrystallizedState passed to
\* initialize_new_cycle holds after the call; crosslinks and validators are
\* deep copies, the schedule a new list, the result a new object
cycle_argument_after(cs, as, b) == cs

\* the caller's pair after one iteration of the loop: the first iteration
\* is given the caller's CrystallizedState (line 714), later ones the
\* object the iteration before them built
caller_pair_after_cycle(ps, cs, as, b, iteration) ==
    IF iteration = 0
    THEN [ps EXCEPT !.crystallized_state = cycle_argument_after(cs, as, b)]
    ELSE ps

Raise(kind, at) ==
    /\ pc' = "idle"
    /\ block' = no_block
    /\ parent_block' = None
    /\ cycles_run' = 0
    /\ dynasty_runs' = 0
    /\ outcome' = IF kind \in ValidationErrors THEN "ValidationError" ELSE "aborted"
    /\ error' = [kind |-> kind, at |-> at]
    /\ crystallized_state' = parent_state.crystallized_state
    /\ active_state' = parent_state.active_state
    /\ justified_slots' = [justified_slots EXCEPT !.working = justified_slots.held]
    /\ UNCHANGED <<parent_state, profile>>

\* lines 714-733: the call is made with the caller's pair, the head of its
\* chain as parent_block and a proposed block
BeginTransition(b) ==
    /\ pc = "idle"
    /\ Len(parent_state.active_state.chain.blocks) < ChainLimit(profile)
    /\ LET cs == parent_state.crystallized_state
           pb == parent_state.active_state.chain.head
           filled == fill_recent_block_hashes(parent_state.active_state, pb, b)
           processed == process_block(cs, filled, b, pb)
       IN IF processed.status = "ok"
          THEN /\ pc' = "cycles"
               /\ block' = b
               /\ parent_block' = pb
               /\ cycles_run' = 0
               /\ dynasty_runs' = 0
               /\ crystallized_state' = cs
               /\ active_state' = processed.active_state
               /\ outcome' = "running"
               /\ error' = no_error
               /\ parent_state' =
                     [parent_state EXCEPT
                        !.active_state =
                            fill_argument_after(parent_state.active_state, pb, b)]
               /\ UNCHANGED <<justified_slots, profile>>
          ELSE Raise(processed.status, processed.at)

\* lines 691-704: one iteration of the while loop
CycleStep ==
    /\ pc = "cycles"
    /\ cycle_due(crystallized_state, block)
    /\ IF cycle_status(crystallized_state, active_state, block) = "ok"
       THEN LET next == cycle_transition(crystallized_state, active_state, block)
            IN /\ crystallized_state' = next.crystallized_state
               /\ active_state' = next.active_state
               /\ cycles_run' = cycles_run + 1
               /\ dynasty_runs' = dynasty_runs + next.dynasty
               /\ parent_state' = caller_pair_after_cycle(parent_state, crystallized_state,
                                                         active_state, block, cycles_run)
               /\ justified_slots' =
                     [justified_slots EXCEPT
                        !.working = @ \cup justified_in_cycle(crystallized_state,
                                                              active_state)]
               /\ UNCHANGED <<pc, outcome, error, block, parent_block, profile>>
       ELSE Raise(cycle_status(crystallized_state, active_state, block), 0)

\* lines 706 and 743: the loop ends and the pair is returned to the caller
ReturnTransition ==
    /\ pc = "cycles"
    /\ ~cycle_due(crystallized_state, block)
    /\ parent_state' = [crystallized_state |-> crystallized_state,
                        active_state |-> active_state]
    /\ pc' = "idle"
    /\ block' = no_block
    /\ parent_block' = None
    /\ cycles_run' = 0
    /\ dynasty_runs' = 0
    /\ outcome' = "returned"
    /\ error' = no_error
    /\ justified_slots' = [justified_slots EXCEPT !.held = justified_slots.working]
    /\ UNCHANGED <<crystallized_state, active_state, profile>>

Propose ==
    LET cs == parent_state.crystallized_state
        as == parent_state.active_state
        pb == parent_state.active_state.chain.head
    IN \E n \in ProposedSlots(profile, pb) :
         \E atts \in AttestationLists(profile, cs, as, pb, n) :
            BeginTransition([hash |-> Len(as.chain.blocks) + 1,
                             slot_number |-> n,
                             parent_hash |-> pb.hash,
                             attestations |-> atts])

Next == Propose \/ CycleStep \/ ReturnTransition

Spec == Init /\ [][Next]_vars

----------------------------------------------------------------------------
\* Properties of compute_state_transition

\* the step in which process_block accepts the block
Accepting == pc = "idle" /\ pc' = "cycles"

\* the step in which the loop of compute_cycle_transitions iterates
Cycling == pc = "cycles" /\ pc' = "cycles" /\ cycles_run' = cycles_run + 1

\* the step in which the call returns its pair to the caller
Returning == pc = "cycles" /\ pc' = "idle" /\ outcome' = "returned"

\* the step in which the call raises a ValidationError
Rejecting == pc = "idle" /\ pc' = "idle" /\ outcome' = "ValidationError"

\* the outcome of every check of block b on parent pb against the pair ps
block_checks(ps, b, pb) ==
    LET filled == fill_recent_block_hashes(ps.active_state, pb, b)
    IN <<validate_parent_block_proposer(b, pb, ps.crystallized_state)>> \o
       [k \in 1..Len(b.attestations) |->
           validate_attestation(ps.crystallized_state, filled, b.attestations[k], b, pb)]

\* C1: a block is accepted only if the proposer check and every one of its
\* attestations validate; when any of them fails a ValidationError is raised,
\* the block is rejected as a unit and the caller's pair stays as it was
C1_RejectedAsUnit ==
    [][ /\ Accepting =>
             \A i \in 1..(Len(block'.attestations) + 1) :
                 block_checks(parent_state, block', parent_block')[i] = "ok"
        /\ Rejecting =>
             /\ error'.kind \in ValidationErrors
             /\ parent_state' = parent_state
             /\ crystallized_state' = parent_state.crystallized_state
             /\ active_state' = parent_state.active_state
      ]_vars

\* a block rejected for its second attestation, after the first one passed
C1_Witness ==
    /\ outcome = "ValidationError"
    /\ error.at >= 2
    /\ pc = "idle"

\* C2: the loop runs exactly floor((n - L) / cycle_length) times for a block
\* at slot n on a state with last_state_recalc L, each run advances
\* last_state_recalc by cycle_length, and on return
\* last_state_recalc <= n < last_state_recalc + cycle_length
C2_CycleCount ==
    [][ /\ Cycling =>
             crystallized_state'.last_state_recalc =
                 crystallized_state.last_state_recalc + cycle_length
        /\ Returning =>
             LET L == parent_state.crystallized_state.last_state_recalc
                 n == block.slot_number
                 R == parent_state'.crystallized_state.last_state_recalc
             IN /\ cycles_run = (n - L) \div cycle_length
                /\ R = L + cycle_length * cycles_run
                /\ R <= n
                /\ n < R + cycle_length
      ]_vars

\* the loop has run twice and is about to return
C2_Witness ==
    /\ pc = "cycles"
    /\ cycles_run >= 2
    /\ ~cycle_due(crystallized_state, block)

\* C3: a block whose slot is below last_state_recalc + cycle_length runs no
\* cycle and no dynasty transition, and the returned CrystallizedState is
\* the one passed in; process_block leaves the CrystallizedState alone
C3_NoCycleNoChange ==
    [][ /\ Accepting => crystallized_state' = parent_state.crystallized_state
        /\ (/\ Returning
            /\ block.slot_number <
                   parent_state.crystallized_state.last_state_recalc + cycle_length) =>
             /\ cycles_run = 0
             /\ dynasty_runs = 0
             /\ parent_state'.crystallized_state = parent_state.crystallized_state
      ]_vars

\* a block with attestations inside the current cycle, about to be returned
C3_Witness ==
    /\ pc = "cycles"
    /\ cycles_run = 0
    /\ block.slot_number < parent_state.crystallized_state.last_state_recalc + cycle_length
    /\ block.slot_number > parent_block.slot_number
    /\ Len(block.attestations) > 0

ffg_ordered(cs) ==
    /\ cs.last_finalized_slot <= cs.last_justified_slot
    /\ cs.last_justified_slot <= cs.last_state_recalc

\* C4: last_finalized_slot <= last_justified_slot <= last_state_recalc in
\* every CrystallizedState, the caller's and the one the call works on
C4_FfgOrder ==
    /\ ffg_ordered(parent_state.crystallized_state)
    /\ ffg_ordered(crystallized_state)

\* a state the caller holds in which a slot above 0 is finalized
C4_Witness ==
    /\ parent_state.crystallized_state.last_finalized_slot > 0
    /\ parent_state.crystallized_state.justified_streak >= cycle_length + 1

\* C5: last_justified_slot and last_finalized_slot never decrease, neither
\* from one cycle to the next inside a call nor from one state the caller
\* holds to the next
C5_FfgMonotone ==
    [][ /\ parent_state'.crystallized_state.last_justified_slot >=
               parent_state.crystallized_state.last_justified_slot
        /\ parent_state'.crystallized_state.last_finalized_slot >=
               parent_state.crystallized_state.last_finalized_slot
        /\ Cycling =>
             /\ crystallized_state'.last_justified_slot >=
                    crystallized_state.last_justified_slot
             /\ crystallized_state'.last_finalized_slot >=
                    crystallized_state.last_finalized_slot
      ]_vars

\* a call whose cycles have moved both slots above the caller's
C5_Witness ==
    /\ pc = "cycles"
    /\ crystallized_state.last_justified_slot >
           parent_state.crystallized_state.last_justified_slot
    /\ crystallized_state.last_finalized_slot >
           parent_state.crystallized_state.last_finalized_slot

balances_nonnegative(cs) ==
    \A k \in 1..Len(cs.validators) : cs.validators[k].balance >= 0

\* the balance validator k (1-based) must have after a cycle on (cs, as)
balance_after_cycle(cs, as, b, k) ==
    IF is_active(cs.validators[k], cs.current_dynasty)
    THEN Max(0, cs.validators[k].balance
                  + calculate_ffg_rewards(cs, as, b)[k]
                  + calculate_crosslink_rewards(cs, as, b)[k])
    ELSE cs.validators[k].balance

\* C6: every validator balance is >= 0 in every state; a cycle sets each
\* active validator's balance to max(0, balance + ffg delta + crosslink
\* delta) and leaves the balance of a validator not active in
\* current_dynasty unchanged
C6_BalancesFloored ==
    [][ /\ balances_nonnegative(parent_state'.crystallized_state)
        /\ balances_nonnegative(crystallized_state')
        /\ Cycling =>
             /\ Len(crystallized_state'.validators) = Len(crystallized_state.validators)
             /\ \A k \in 1..Len(crystallized_state.validators) :
                   crystallized_state'.validators[k].balance =
                       balance_after_cycle(crystallized_state, active_state, block, k)
      ]_vars

\* a cycle has taken more than an active validator had: its balance is 0,
\* while the validator that is not active yet keeps its deposit
C6_Witness ==
    /\ pc = "cycles"
    /\ cycles_run > 0
    /\ \E k \in 1..Len(crystallized_state.validators) :
          /\ is_active(crystallized_state.validators[k], crystallized_state.current_dynasty)
          /\ crystallized_state.validators[k].balance = 0
    /\ \E k \in 1..Len(crystallized_state.validators) :
          /\ ~is_active(crystallized_state.validators[k], crystallized_state.current_dynasty)
          /\ crystallized_state.validators[k].balance = deposit_size

\* C7: len(shard_and_committee_for_slots) = 2 * cycle_length in every
\* state, the caller's and the one the call works on, through cycles and
\* dynasty transitions
C7_ScheduleLength ==
    /\ Len(parent_state.crystallized_state.shard_and_committee_for_slots) = 2 * cycle_length
    /\ Len(crystallized_state.shard_and_committee_for_slots) = 2 * cycle_length

\* a state returned to the caller after cycles and a dynasty transition
C7_Witness ==
    /\ parent_state.crystallized_state.current_dynasty > 1
    /\ parent_state.crystallized_state.last_state_recalc >= 2 * cycle_length

\* C8: len(recent_block_hashes) = 2 * cycle_length in every ActiveState, the
\* caller's and the one the call works on, whatever the gap between the
\* block and its parent and however many cycles the call has run
C8_RecentHashesLength ==
    /\ Len(parent_state.active_state.recent_block_hashes) = 2 * cycle_length
    /\ Len(active_state.recent_block_hashes) = 2 * cycle_length

\* a call on a block more than 2 * cycle_length slots after its parent that
\* has run a cycle, made on a state that an earlier call returned
C8_Witness ==
    /\ pc = "cycles"
    /\ block.slot_number - parent_block.slot_number > 2 * cycle_length
    /\ cycles_run >= 1
    /\ Len(parent_state.active_state.chain.blocks) >= 2

\* C9: crosslink_records[s].dynasty <= current_dynasty for every shard s,
\* in the caller's state and in the one the call works on
C9_CrosslinkDynasty ==
    /\ \A k \in 1..Len(parent_state.crystallized_state.crosslink_records) :
          parent_state.crystallized_state.crosslink_records[k].dynasty <=
              parent_state.crystallized_state.current_dynasty
    /\ \A k \in 1..Len(crystallized_state.crosslink_records) :
          crystallized_state.crosslink_records[k].dynasty <=
              crystallized_state.current_dynasty

\* a record written in dynasty 1, held after the dynasty has changed
C9_Witness ==
    /\ crystallized_state.current_dynasty > 1
    /\ \E k \in 1..Len(crystallized_state.crosslink_records) :
          crystallized_state.crosslink_records[k].dynasty = 1

\* the validators whose bit is set in the attestation
attestation_voters(cs, attestation) ==
    LET indices == get_attestation_indices(cs, attestation)
    IN {indices[c] : c \in {c \in 1..Len(indices) :
                               has_voted(attestation.attester_bitfield, c - 1)}}

\* the hashes the attestation signs and does not list as oblique
credited_hashes(as, b, attestation) ==
    SeqToSet(get_signed_parent_hashes(as, b, attestation)) \
        SeqToSet(attestation.oblique_parent_hashes)

voters_of(cache, h) == IF h \in DOMAIN cache THEN cache[h].voter_indices ELSE {}

deposits_of(cache, h) == IF h \in DOMAIN cache THEN cache[h].total_voter_deposits ELSE 0

\* C10: when a block is accepted, each hash's voter set grows by exactly the
\* voters of the block's attestations that sign it outside their oblique
\* hashes, and total_voter_deposits grows by the balance of each validator
\* that was not a voter yet, once; no entry is removed and no voter set
\* shrinks; cycles leave the cache as it is
C10_VoteCacheSums ==
    [][ /\ Accepting =>
             LET cs == parent_state.crystallized_state
                 old == parent_state.active_state.block_vote_cache
                 new == active_state'.block_vote_cache
                 filled == fill_recent_block_hashes(parent_state.active_state,
                                                    parent_block', block')
                 voting(h) ==
                     UNION {attestation_voters(cs, block'.attestations[k]) :
                              k \in {k \in 1..Len(block'.attestations) :
                                       h \in credited_hashes(filled, block',
                                                             block'.attestations[k])}}
             IN /\ DOMAIN old \subseteq DOMAIN new
                /\ \A h \in DOMAIN new :
                      /\ new[h].voter_indices = voters_of(old, h) \cup voting(h)
                      /\ new[h].total_voter_deposits =
                             deposits_of(old, h) +
                             SumOver(new[h].voter_indices \ voters_of(old, h),
                                     [v \in new[h].voter_indices |-> At(cs.validators, v).balance])
        /\ Cycling => active_state'.block_vote_cache = active_state.block_vote_cache
        /\ \A h \in DOMAIN parent_state.active_state.block_vote_cache :
              /\ h \in DOMAIN parent_state'.active_state.block_vote_cache
              /\ parent_state.active_state.block_vote_cache[h].voter_indices \subseteq
                     parent_state'.active_state.block_vote_cache[h].voter_indices
      ]_vars

\* an accepted block in which a validator votes for a hash it was already a
\* voter of, and whose attestation lists an oblique hash
C10_Witness ==
    /\ pc = "cycles"
    /\ \E k \in 1..Len(block.attestations) :
          \E h \in credited_hashes(
                      fill_recent_block_hashes(parent_state.active_state, parent_block, block),
                      block, block.attestations[k]) :
              /\ h \in DOMAIN parent_state.active_state.block_vote_cache
              /\ attestation_voters(parent_state.crystallized_state, block.attestations[k])
                    \cap parent_state.active_state.block_vote_cache[h].voter_indices # {}
    /\ \E k \in 1..Len(block.attestations) :
          Len(block.attestations[k].oblique_parent_hashes) > 0

proposed_block(as, pb, n, atts) ==
    [hash |-> Len(as.chain.blocks) + 1,
     slot_number |-> n,
     parent_hash |-> pb.hash,
     attestations |-> atts]

\* the seven conditions of the attestation validator
listed_conditions(cs, as, attestation, pb) ==
    /\ attestation.slot <= pb.slot_number
    /\ attestation.slot >= Max(pb.slot_number - cycle_length + 1, 0)
    /\ attestation.justified_slot <= cs.last_justified_slot
    /\ \E k \in 1..Len(as.chain.blocks) :
          /\ as.chain.blocks[k].hash = attestation.justified_block_hash
          /\ as.chain.blocks[k].slot_number = attestation.justified_slot
    /\ attestation.attester_bitfield.nbytes =
           get_bitfield_length(Len(get_attestation_indices(cs, attestation)))
    /\ \A i \in Len(get_attestation_indices(cs, attestation))
                  ..(8 * attestation.attester_bitfield.nbytes - 1) :
          ~has_voted(attestation.attester_bitfield, i)
    /\ bls_verify(attestation)

\* the verdicts of validate_attestation on every attestation the caller may
\* put in its next block agree with check(verdict, conditions hold)
verdicts_agree(check(_, _)) ==
    (pc = "idle" /\ Len(parent_state.active_state.chain.blocks) < ChainLimit(profile)) =>
        LET cs == parent_state.crystallized_state
            as == parent_state.active_state
            pb == parent_state.active_state.chain.head
        IN \A n \in ProposedSlots(profile, pb) :
             \A atts \in AttestationLists(profile, cs, as, pb, n) :
               \A k \in 1..Len(atts) :
                  LET b == proposed_block(as, pb, n, atts)
                      filled == fill_recent_block_hashes(as, pb, b)
                  IN check(validate_attestation(cs, filled, atts[k], b, pb),
                           listed_conditions(cs, filled, atts[k], pb))

\* C12: validate_attestation accepts an attestation if and only if the
\* seven listed conditions hold, and in every other case it fails with a
\* validation error
C12_AcceptsIffListed ==
    verdicts_agree(LAMBDA verdict, listed :
        /\ (verdict = "ok") <=> listed
        /\ verdict # "ok" => verdict \in ValidationErrors)

\* the part of C12 that holds: an accepted attestation meets the seven
\* conditions
C12_OnlyIf == verdicts_agree(LAMBDA verdict, listed : (verdict = "ok") => listed)

\* the part of C12 that holds: a validation error is raised only when one of
\* the seven conditions fails
C12_NoOtherRejection ==
    verdicts_agree(LAMBDA verdict, listed : (verdict \in ValidationErrors) => ~listed)

\* check holds of every block the caller may propose next, given the
\* caller's CrystallizedState, the filled ActiveState, the block and its parent
every_proposal(check(_, _, _, _)) ==
    (pc = "idle" /\ Len(parent_state.active_state.chain.blocks) < ChainLimit(profile)) =>
        LET cs == parent_state.crystallized_state
            as == parent_state.active_state
            pb == parent_state.active_state.chain.head
        IN \A n \in ProposedSlots(profile, pb) :
             \A atts \in AttestationLists(profile, cs, as, pb, n) :
                check(cs,
                      fill_recent_block_hashes(as, pb, proposed_block(as, pb, n, atts)),
                      proposed_block(as, pb, n, atts),
                      pb)

\* C13: a block at a slot above 0 is rejected with a validation error when
\* it has no attestation, or when its first attestation does not carry the
\* proposer's shard, the parent's slot and the proposer's bit; a block at
\* slot 0 is exempt and is accepted with no attestation
C13_ProposerAttestation ==
    every_proposal(LAMBDA cs, as, b, pb :
        LET position == get_proposer_position(pb, cs)
            status == process_block(cs, as, b, pb).status
        IN /\ (b.slot_number > 0 /\ Len(b.attestations) = 0) =>
                 status = "EmptyAttestations"
           /\ (/\ b.slot_number > 0
               /\ Len(b.attestations) > 0
               /\ ~(/\ b.attestations[1].shard_id = position.shard_id
                    /\ b.attestations[1].slot = pb.slot_number
                    /\ has_voted(b.attestations[1].attester_bitfield,
                                 position.proposer_index_in_committee))) =>
                 status = "ProposerNotAttester"
           /\ (b.slot_number = 0 /\ Len(b.attestations) = 0) => status = "ok")

\* a block rejected because its first attestation is not the proposer's
C13_Witness ==
    /\ outcome = "ValidationError"
    /\ error.kind = "ProposerNotAttester"
    /\ error.at = 0
    /\ Len(parent_state.active_state.chain.blocks) >= 2

\* the shard ids that appear in the schedule
scheduled_shards(cs) ==
    UNION {{cs.shard_and_committee_for_slots[i][k].shard_id :
               k \in 1..Len(cs.shard_and_committee_for_slots[i])} :
           i \in 1..Len(cs.shard_and_committee_for_slots)}

\* the three conditions of a dynasty transition on the state a cycle built
dynasty_conditions(cs, b) ==
    /\ b.slot_number - cs.dynasty_start >= min_dynasty_length
    /\ cs.last_finalized_slot > cs.dynasty_start
    /\ \A shard_id \in scheduled_shards(cs) :
          /\ At(cs.crosslink_records, shard_id).dynasty = cs.current_dynasty
          /\ At(cs.crosslink_records, shard_id).slot > cs.dynasty_start

\* C14: a cycle increments current_dynasty if and only if, on the state
\* initialize_new_cycle built, block.slot_number - dynasty_start >=
\* min_dynasty_length, last_finalized_slot > dynasty_start and every
\* scheduled shard has a crosslink record of the current dynasty with slot >
\* dynasty_start
C14_DynastyTransition ==
    [][ Cycling =>
          LET cycled == initialize_new_cycle(crystallized_state, active_state,
                                             block).crystallized_state
          IN IF dynasty_conditions(cycled, block)
             THEN /\ crystallized_state'.current_dynasty = cycled.current_dynasty + 1
                  /\ dynasty_runs' = dynasty_runs + 1
             ELSE /\ crystallized_state'.current_dynasty = crystallized_state.current_dynasty
                  /\ crystallized_state' = cycled
                  /\ dynasty_runs' = dynasty_runs
      ]_vars

\* a call in which a cycle ended the dynasty
C14_Witness ==
    /\ pc = "cycles"
    /\ dynasty_runs = 1
    /\ crystallized_state.current_dynasty = parent_state.crystallized_state.current_dynasty + 1

\* the attestations of the list with slot >= bound, in their order
pending_from(pending_attestations, bound) ==
    SelectSeq(pending_attestations, LAMBDA a : a.slot >= bound)

\* C15 as stated: a cycle keeps exactly the pending attestations whose slot
\* is >= the new last_state_recalc, the pre-cycle value plus cycle_length
C15_PrunedToNewRecalc ==
    [][ Cycling =>
          active_state'.pending_attestations =
              pending_from(active_state.pending_attestations,
                           crystallized_state.last_state_recalc + cycle_length)
      ]_vars

\* C15 amended: a cycle keeps exactly the pending attestations whose slot is
\* >= the pre-cycle last_state_recalc, in their original order, and removes
\* every attestation with a smaller slot
C15_PrunedToOldRecalc ==
    [][ Cycling =>
          active_state'.pending_attestations =
              pending_from(active_state.pending_attestations,
                           crystallized_state.last_state_recalc)
      ]_vars

\* a cycle has removed an attestation and kept one whose slot is below the
\* new last_state_recalc
C15_Witness ==
    /\ pc = "cycles"
    /\ cycles_run >= 1
    /\ \E k \in 1..Len(active_state.pending_attestations) :
          active_state.pending_attestations[k].slot < crystallized_state.last_state_recalc
    /\ Len(active_state.pending_attestations) <
           Len(parent_state.active_state.pending_attestations) + Len(block.attestations)

\* positions of the pending attestations of the group (shard_id, hash)
group_positions(pending, shard_id, hash) ==
    {k \in 1..Len(pending) :
        pending[k].shard_id = shard_id /\ pending[k].shard_block_hash = hash}

\* the balance voted in the group's attestations at positions <= upto
group_balance(cs, pending, shard_id, hash, upto) ==
    SumOver({k \in group_positions(pending, shard_id, hash) : k <= upto},
            [k \in 1..Len(pending) |-> attestation_balance(cs, pending[k])])

\* the group reaches 2/3 of the committee balance of each of its attestations
group_meets(cs, pending, shard_id, hash) ==
    /\ group_positions(pending, shard_id, hash) # {}
    /\ \A k \in group_positions(pending, shard_id, hash) :
          3 * group_balance(cs, pending, shard_id, hash, Len(pending))
              >= 2 * committee_balance(cs, pending[k])

\* the group's running balance reaches 2/3 at one of its attestations
group_meets_somewhere(cs, pending, shard_id, hash) ==
    \E k \in group_positions(pending, shard_id, hash) :
        3 * group_balance(cs, pending, shard_id, hash, k)
            >= 2 * committee_balance(cs, pending[k])

written_record(cs, hash) ==
    [dynasty |-> cs.current_dynasty,
     slot |-> cs.last_state_recalc + cycle_length,
     hash |-> hash]

pending_hashes(pending) == {pending[k].shard_block_hash : k \in 1..Len(pending)}

reaching_positions(cs, pending, shard_id) ==
    {k \in 1..Len(pending) :
        /\ pending[k].shard_id = shard_id
        /\ 3 * group_balance(cs, pending, shard_id, pending[k].shard_block_hash, k)
              >= 2 * committee_balance(cs, pending[k])}

unjustified_positions(cs, as) ==
    {i \in 0..(cycle_length - 1) :
        ~is_justified(vote_balance(as, At(as.recent_block_hashes, i)), total_deposits(cs))}

\* C17 as stated: a cycle whose cycle_length examined hashes all reach 2/3
\* of the deposits sets last_justified_slot to the pre-cycle
\* last_state_recalc - 1 and adds cycle_length to justified_streak
C17_JustifiedToRecalc ==
    [][ (Cycling /\ unjustified_positions(crystallized_state, active_state) = {}) =>
          /\ crystallized_state'.last_justified_slot = crystallized_state.last_state_recalc - 1
          /\ crystallized_state'.justified_streak =
                crystallized_state.justified_streak + cycle_length
      ]_vars

\* C17 amended: a cycle whose cycle_length examined hashes all reach 2/3 of
\* the deposits sets last_justified_slot to the larger of its pre-cycle
\* value and the pre-cycle last_state_recalc - 1, which is
\* last_state_recalc - 1 once a cycle has run, and adds cycle_length to
\* justified_streak; with a hash below 2/3 the streak restarts from 0 at the
\* last such slot and counts the slots after it
C17_JustifiedCycle ==
    [][ Cycling =>
          LET cs == crystallized_state
              failing == unjustified_positions(cs, active_state)
          IN IF failing = {}
             THEN /\ crystallized_state'.last_justified_slot =
                        Max(cs.last_justified_slot, cs.last_state_recalc - 1)
                  /\ cs.last_state_recalc >= cycle_length =>
                        crystallized_state'.last_justified_slot = cs.last_state_recalc - 1
                  /\ crystallized_state'.justified_streak = cs.justified_streak + cycle_length
             ELSE crystallized_state'.justified_streak =
                     cycle_length - 1 - (CHOOSE i \in failing : \A j \in failing : j <= i)
      ]_vars

\* a cycle after the first has found all its hashes justified
C17_Witness ==
    /\ pc = "cycles"
    /\ cycles_run = 1
    /\ parent_state.crystallized_state.last_state_recalc >= cycle_length
    /\ unjustified_positions(parent_state.crystallized_state, active_state) = {}
    /\ crystallized_state.last_justified_slot =
          parent_state.crystallized_state.last_state_recalc - 1
    /\ crystallized_state.justified_streak =
          parent_state.crystallized_state.justified_streak + cycle_length

\* a cycle is about to run after exactly one fully justified cycle that
\* began with justified_streak 0, and finds all its hashes justified
second_justified_cycle ==
    /\ Cycling
    /\ crystallized_state.justified_streak = cycle_length
    /\ unjustified_positions(crystallized_state, active_state) = {}

\* C18 as stated: the second of two fully justified cycles, the first of
\* which began with justified_streak 0, advances last_finalized_slot by
\* exactly cycle_length
C18_FinalityAdvancesByCycle ==
    [][ second_justified_cycle =>
          crystallized_state'.last_finalized_slot =
              crystallized_state.last_finalized_slot + cycle_length
      ]_vars

\* C18 amended: the second of two fully justified cycles, the first of
\* which began with justified_streak 0, sets last_finalized_slot to the
\* larger of its value and the pre-cycle last_state_recalc - cycle_length - 2,
\* and leaves justified_streak at 2 * cycle_length
C18_FinalityAfterStreak ==
    [][ second_justified_cycle =>
          /\ crystallized_state'.last_finalized_slot =
                Max(crystallized_state.last_finalized_slot,
                    crystallized_state.last_state_recalc - cycle_length - 2)
          /\ crystallized_state'.justified_streak = 2 * cycle_length
      ]_vars

\* the second fully justified cycle has moved last_finalized_slot
C18_Witness ==
    /\ pc = "cycles"
    /\ cycles_run = 1
    /\ parent_state.crystallized_state.justified_streak = cycle_length
    /\ unjustified_positions(parent_state.crystallized_state, active_state) = {}
    /\ crystallized_state.justified_streak = 2 * cycle_length
    /\ crystallized_state.last_finalized_slot >
          parent_state.crystallized_state.last_finalized_slot

\* more than 3 * cycle_length slots lie between the last finalized slot and
\* the block
leaking(cs, b) == b.slot_number - cs.last_finalized_slot > 3 * cycle_length

\* the slots of the reward window in which validator k is not a voter
missed_slots(cs, as, k) ==
    {slot \in reward_window(cs) : k \notin ffg_votes(as, slot).voter_indices}

\* no active validator is a voter of any slot of the reward window
nobody_participates(cs, as) ==
    \A k \in active_index_set(cs.current_dynasty, cs.validators) :
        missed_slots(cs, as, k) = reward_window(cs)

\* the penalty of one missed slot under the leak, from the pre-cycle balance
leak_penalty(cs, b, balance) ==
    (balance \div reward_quotient(cs))
        + ((balance * (b.slot_number - cs.last_finalized_slot))
              \div quadratic_penalty_quotient)

\* C19 as stated: under the leak and with nobody participating, a cycle
\* lowers the balance of every active validator by exactly the leak penalty
\* of each slot of the window, floored at zero
C19_LeakLowersBalance ==
    [][ (Cycling /\ leaking(crystallized_state, block)
                 /\ nobody_participates(crystallized_state, active_state)) =>
          LET cs == crystallized_state
          IN \A k \in active_index_set(cs.current_dynasty, cs.validators) :
               At(crystallized_state'.validators, k).balance =
                  Max(0, At(cs.validators, k).balance
                           - Cardinality(reward_window(cs))
                               * leak_penalty(cs, block, At(cs.validators, k).balance))
      ]_vars

\* C19 amended: under the leak a cycle changes the balance of every active
\* validator by minus the leak penalty of each slot of the window in which
\* it is not a voter, nothing for the slots in which it is, plus its
\* crosslink reward or penalty, each from the pre-cycle balance, the sum
\* floored at zero
C19_LeakAndCrosslinks ==
    [][ (Cycling /\ leaking(crystallized_state, block)) =>
          LET cs == crystallized_state
          IN \A k \in active_index_set(cs.current_dynasty, cs.validators) :
               At(crystallized_state'.validators, k).balance =
                  Max(0, At(cs.validators, k).balance
                           - Cardinality(missed_slots(cs, active_state, k))
                               * leak_penalty(cs, block, At(cs.validators, k).balance)
                           + At(calculate_crosslink_rewards(cs, active_state, block), k))
      ]_vars

\* a cycle under the leak, with nobody participating, has taken the leak
\* penalty of every slot of its window from a validator that keeps a balance
C19_Witness ==
    /\ pc = "cycles"
    /\ cycles_run = 1
    /\ leaking(parent_state.crystallized_state, block)
    /\ reward_window(parent_state.crystallized_state) # {}
    /\ nobody_participates(parent_state.crystallized_state, active_state)
    /\ \E k \in active_index_set(parent_state.crystallized_state.current_dynasty,
                                 parent_state.crystallized_state.validators) :
          LET before == At(parent_state.crystallized_state.validators, k).balance
              after == At(crystallized_state.validators, k).balance
          IN /\ (before * (block.slot_number
                             - parent_state.crystallized_state.last_finalized_slot))
                   \div quadratic_penalty_quotient > 0
             /\ after > 0
             /\ after <= before
                   - Cardinality(reward_window(parent_state.crystallized_state))
                       * leak_penalty(parent_state.crystallized_state, block, before)

\* the shard after the one of the last committee of the last slot
shard_after_last(schedule) ==
    (schedule[Len(schedule)][Len(schedule[Len(schedule)])].shard_id + 1) % shard_count

\* C20: a dynasty transition adds exactly 1 to current_dynasty, sets
\* dynasty_start to last_state_recalc and replaces only indices
\* [cycle_length, 2 * cycle_length) of the schedule with the new shuffling
\* for the block's parent hash, the validators, the incremented dynasty and
\* the shard after the last scheduled one; the first half of the schedule,
\* the validators, last_state_recalc, the FFG counters and the crosslink
\* records stay as the cycle left them
C20_DynastyTransitionEffect ==
    [][ (Cycling /\ dynasty_runs' = dynasty_runs + 1) =>
          LET before == initialize_new_cycle(crystallized_state, active_state,
                                             block).crystallized_state
              after == crystallized_state'
          IN /\ after.current_dynasty = before.current_dynasty + 1
             /\ after.dynasty_start = before.last_state_recalc
             /\ Len(after.shard_and_committee_for_slots) = 2 * cycle_length
             /\ SubSeq(after.shard_and_committee_for_slots, cycle_length + 1, 2 * cycle_length) =
                   get_new_shuffling(block.parent_hash, before.validators,
                                     before.current_dynasty + 1,
                                     shard_after_last(before.shard_and_committee_for_slots))
             /\ SubSeq(after.shard_and_committee_for_slots, 1, cycle_length) =
                   SubSeq(before.shard_and_committee_for_slots, 1, cycle_length)
             /\ after.validators = before.validators
             /\ after.last_state_recalc = before.last_state_recalc
             /\ after.last_justified_slot = before.last_justified_slot
             /\ after.justified_streak = before.justified_streak
             /\ after.last_finalized_slot = before.last_finalized_slot
             /\ after.crosslink_records = before.crosslink_records
      ]_vars

\* a dynasty transition has given the second half of the schedule
\* committees that differ from those of the first half
C20_Witness ==
    /\ pc = "cycles"
    /\ dynasty_runs = 1
    /\ crystallized_state.current_dynasty = parent_state.crystallized_state.current_dynasty + 1
    /\ crystallized_state.dynasty_start = crystallized_state.last_state_recalc
    /\ SubSeq(crystallized_state.shard_and_committee_for_slots, cycle_length + 1, 2 * cycle_length)
          # SubSeq(crystallized_state.shard_and_committee_for_slots, 1, cycle_length)

RECURSIVE folded_cache(_, _, _, _, _)
\* the cache after the attestations k.. of the block are folded over it in
\* block order
folded_cache(cs, as, b, cache, k) ==
    IF k > Len(b.attestations) THEN cache
    ELSE folded_cache(cs, as, b,
                      get_updated_block_vote_cache(cs, as, b.attestations[k], b, cache),
                      k + 1)

\* C21: when process_block accepts a block, the new active state has the old
\* pending attestations followed by the block's in block order, the old
\* chain with the block appended and as head, the recent_block_hashes of the
\* active state it was given, element for element, and the vote cache
\* obtained by folding every attestation of the block in order over the old
\* cache
C21_ProcessBlockEffect ==
    [][ Accepting =>
          LET cs == parent_state.crystallized_state
              given == fill_recent_block_hashes(parent_state.active_state,
                                                parent_state.active_state.chain.head,
                                                block')
          IN /\ active_state'.pending_attestations =
                   given.pending_attestations \o block'.attestations
             /\ active_state'.chain.blocks =
                   Append(given.chain.blocks, chain_entry(block'))
             /\ active_state'.chain.head = chain_entry(block')
             /\ Len(active_state'.recent_block_hashes) = Len(given.recent_block_hashes)
             /\ \A i \in 1..Len(given.recent_block_hashes) :
                   active_state'.recent_block_hashes[i] = given.recent_block_hashes[i]
             /\ active_state'.block_vote_cache =
                   folded_cache(cs, given, block', given.block_vote_cache, 1)
      ]_vars

\* a block with attestations has been accepted on top of pending ones
C21_Witness ==
    /\ pc = "cycles"
    /\ cycles_run = 0
    /\ Len(block.attestations) >= 2
    /\ Len(parent_state.active_state.pending_attestations) >= 1
    /\ active_state.pending_attestations =
          parent_state.active_state.pending_attestations \o block.attestations
    /\ active_state.pending_attestations #
          block.attestations \o parent_state.active_state.pending_attestations
    /\ active_state.block_vote_cache # parent_state.active_state.block_vote_cache
    /\ active_state.chain.head.hash = block.hash

\* the hash recent_block_hashes is filled with for a slot: the hash of the
\* latest block of the chain at or before the slot, ZERO_HASH32 before genesis
slot_hash(chain, slot) ==
    LET earlier == {k \in 1..Len(chain.blocks) : chain.blocks[k].slot_number <= slot}
    IN IF earlier = {} THEN ZERO_HASH32
       ELSE chain.blocks[CHOOSE k \in earlier :
                            \A j \in earlier :
                               \/ chain.blocks[j].slot_number < chain.blocks[k].slot_number
                               \/ /\ chain.blocks[j].slot_number = chain.blocks[k].slot_number
                                  /\ j <= k].hash

\* the hash initialize_new_cycle examines at position i is the hash of the
\* slot it credits, last_state_recalc - cycle_length + i
examined_hash_of_slot(cs, as, i) ==
    At(as.recent_block_hashes, i) =
        slot_hash(as.chain, cs.last_state_recalc - cycle_length + i)

\* C22: whenever a cycle runs inside a transition, recent_block_hashes[i]
\* for i in [0, cycle_length) is the hash of slot
\* last_state_recalc - cycle_length + i, also when the block lies beyond the
\* cycle boundary and in the second and later cycles of one block
C22_ExaminedHashesAligned ==
    (pc = "cycles" /\ cycle_due(crystallized_state, block)) =>
        \A i \in 0..(cycle_length - 1) :
            examined_hash_of_slot(crystallized_state, active_state, i)

\* the part of C22 that holds: the examined hashes are those of the credited
\* slots in a cycle run by a block that lies exactly on the cycle boundary
C22_AlignedOnBoundary ==
    (/\ pc = "cycles"
     /\ cycle_due(crystallized_state, block)
     /\ block.slot_number = crystallized_state.last_state_recalc + cycle_length) =>
        \A i \in 0..(cycle_length - 1) :
            examined_hash_of_slot(crystallized_state, active_state, i)

\* C23: in every reachable state in which a cycle runs, block_vote_cache has
\* an entry for the hash of every block the chain holds at a slot of the FFG
\* window, so calculate_ffg_rewards does not abort on a missing entry
C23_WindowBlocksCached ==
    (pc = "cycles" /\ cycle_due(crystallized_state, block)) =>
        \A slot \in reward_window(crystallized_state) :
            get_block_by_slot_number(active_state.chain, slot) # None =>
                get_block_by_slot_number(active_state.chain, slot).hash
                    \in DOMAIN active_state.block_vote_cache

\* C24: in every state reached from genesis by accepted transitions, a cycle
\* that computes rewards finds total_deposits > 0 and reward_quotient >= 1,
\* so that no reward formula divides by zero, also after penalties and the
\* leak have lowered the balances
C24_DepositsPositive ==
    (pc = "cycles" /\ cycle_due(crystallized_state, block)) =>
        /\ total_deposits(crystallized_state) > 0
        /\ reward_quotient(crystallized_state) >= 1

\* the validators whose bit is set in the attestation
attestation_signers(cs, attestation) ==
    LET attestation_indices == get_attestation_indices(cs, attestation)
    IN {attestation_indices[k] : k \in {j \in 1..Len(attestation_indices) :
                                          has_voted(attestation.attester_bitfield, j - 1)}}

\* the balance of the distinct validators whose bit is set in a pending
\* attestation of the group (shard_id, hash)
distinct_group_balance(cs, pending, shard_id, hash) ==
    LET signers == UNION {attestation_signers(cs, pending[k]) :
                             k \in group_positions(pending, shard_id, hash)}
    IN SumOver(signers, [v \in signers |-> At(cs.validators, v).balance])

\* C25: a cycle writes a new crosslink record for shard s with hash h only
\* if the distinct committee members whose bit is set in pending
\* attestations for (s, h) hold at least 2/3 of the committee's balance
C25_DistinctVoters ==
    [][ Cycling =>
          LET cs == crystallized_state
              pending == active_state.pending_attestations
          IN \A s \in 0..(shard_count - 1) :
               At(crystallized_state'.crosslink_records, s) # At(cs.crosslink_records, s) =>
                  LET h == At(crystallized_state'.crosslink_records, s).hash
                  IN \E k \in group_positions(pending, s, h) :
                        3 * distinct_group_balance(cs, pending, s, h)
                            >= 2 * committee_balance(cs, pending[k])
      ]_vars

\* the part of C25 that holds: a written record has a group whose balance,
\* counted once per attestation and bit, reaches 2/3 of a committee's
C25_CountedVoters ==
    [][ Cycling =>
          LET cs == crystallized_state
              pending == active_state.pending_attestations
          IN \A s \in 0..(shard_count - 1) :
               At(crystallized_state'.crosslink_records, s) # At(cs.crosslink_records, s) =>
                  group_meets_somewhere(cs, pending, s,
                                        At(crystallized_state'.crosslink_records, s).hash)
      ]_vars

---------------------------------------------------------------------------
(* C26: the pending attestations stay inside the committee schedule.       *)

\* every attestation of the list has its slot in
\* [last_state_recalc - cycle_length, last_state_recalc + cycle_length)
pending_in_window(cs, as) ==
    \A k \in 1..Len(as.pending_attestations) :
        /\ as.pending_attestations[k].slot >= cs.last_state_recalc - cycle_length
        /\ as.pending_attestations[k].slot < cs.last_state_recalc + cycle_length

\* every attestation of as_after that was already pending in as_before has
\* the same committee under cs_after as under cs_before
committees_kept(cs_before, as_before, cs_after, as_after) ==
    \A a \in SeqToSet(as_after.pending_attestations) :
        a \in SeqToSet(as_before.pending_attestations) =>
            /\ slot_in_schedule(cs_before, a.slot)
            /\ slot_in_schedule(cs_after, a.slot)
            /\ get_attestation_indices(cs_after, a) = get_attestation_indices(cs_before, a)

\* the pending attestations of the pair held by the caller, and those of the
\* pair a call is working on, are inside the window and inside the schedule
pending_inside_schedule ==
    /\ pending_in_window(parent_state.crystallized_state, parent_state.active_state)
    /\ crosslinks_defined(parent_state.crystallized_state, parent_state.active_state)
    /\ pc = "cycles" =>
          /\ pending_in_window(crystallized_state, active_state)
          /\ crosslinks_defined(crystallized_state, active_state)

\* a block is validated against the crystallized state its attestations are
\* then pending under, and every cycle (with its dynasty transition, if any)
\* and every return leaves each attestation that stays pending with the
\* committee it had before
committee_never_changes ==
    /\ Accepting =>
          /\ crystallized_state' = parent_state.crystallized_state
          /\ \A k \in 1..Len(block'.attestations) :
                validate_attestation(crystallized_state',
                                     fill_recent_block_hashes(parent_state.active_state,
                                                              parent_block', block'),
                                     block'.attestations[k], block', parent_block') = "ok"
          /\ committees_kept(parent_state.crystallized_state, parent_state.active_state,
                             crystallized_state', active_state')
    /\ Cycling => committees_kept(crystallized_state, active_state,
                                  crystallized_state', active_state')
    /\ Returning => committees_kept(crystallized_state, active_state,
                                    parent_state'.crystallized_state,
                                    parent_state'.active_state)

\* C26: in every reachable state, so at the start of every cycle of a call
\* too, every pending attestation has its slot in
\* [last_state_recalc - cycle_length, last_state_recalc + cycle_length), the
\* committee lookup of process_updated_crosslinks is inside the schedule, and
\* the committee it returns is the one the attestation was validated against
C26_PendingInsideSchedule ==
    /\ []pending_inside_schedule
    /\ [][committee_never_changes]_vars

\* a cycle has ended the dynasty: the schedule has been shifted and its
\* second half reshuffled to other committees, and an attestation validated
\* before the cycle is still pending
C26_Witness ==
    /\ pc = "cycles"
    /\ cycles_run >= 1
    /\ dynasty_runs >= 1
    /\ \E k \in 1..Len(active_state.pending_attestations) :
          active_state.pending_attestations[k].slot < crystallized_state.last_state_recalc
    /\ SubSeq(crystallized_state.shard_and_committee_for_slots, 1, cycle_length)
          # SubSeq(crystallized_state.shard_and_committee_for_slots,
                   cycle_length + 1, 2 * cycle_length)

---------------------------------------------------------------------------
(* C27: finality and the justification of the finalized slot.              *)

\* C27 as stated: whenever a cycle raises last_finalized_slot to a slot f,
\* slot f met the threshold 3 * vote_balance >= 2 * total_deposits when the
\* loop of initialize_new_cycle examined it
C27_FinalizedWasJustified ==
    [][ (Cycling /\ crystallized_state'.last_finalized_slot
                       > crystallized_state.last_finalized_slot) =>
            crystallized_state'.last_finalized_slot \in justified_slots'.working
      ]_vars

\* what the streak does guarantee: whenever a cycle raises
\* last_finalized_slot to a slot f, the cycle_length + 1 slots after f met
\* the threshold when they were examined
C27_SlotsAfterFinalizedJustified ==
    [][ (Cycling /\ crystallized_state'.last_finalized_slot
                       > crystallized_state.last_finalized_slot) =>
            \A k \in 1..(cycle_length + 1) :
                (crystallized_state'.last_finalized_slot + k) \in justified_slots'.working
      ]_vars


=============================================================================
